---- MODULE Spec2Model ----
(***************************************************************************)
(* Model of the voice chat pipeline of src/voice_ai_chat.py and of the     *)
(* configuration resolver of src/config.py.                                *)
(*                                                                         *)
(* The two files on disk (chat_context.json, ai_reply.mp3) and the module  *)
(* level configuration cfg are the shared state.  Every caller (Procs) has *)
(* a frame holding the locals of the function it is executing.  The remote *)
(* providers are the environment: a call either returns a text (or bytes)  *)
(* drawn from a small set or raises.                                       *)
(***************************************************************************)
EXTENDS Naturals, Sequences, FiniteSets

\* ---------------------------------------------------------------- bounds
\* Longest conversation history found on disk at start-up.
MaxInit == 6
\* Calls (process, load or append) one caller makes, one after the other.
MaxOps == 3
\* Calls each of the concurrent callers makes.
MaxConcOps == 1

Procs == {1, 2}

\* ------------------------------------------------------------- constants
CONTEXT_FILE == "chat_context.json"
OUTPUT_PATH == "ai_reply.mp3"
MOCK_TRANSCRIPT == "Hello AI, how are you today?"
MOCK_REPLY == "I'm great! How can I assist you today?"
NO_MODEL_REPLY == "[Error] No language model API configured."
FAKEAUDIOBYTES == "FAKEAUDIOBYTES"
\* context[-5:]
WINDOW == 5

\* A str holding a lone surrogate (json.loads('"\\ud83d"')): a value every
\* provider response can carry and that the utf-8 codec cannot encode.
LONE_SURROGATE == "\\ud83d"

\* What the transcription endpoint can answer, what a generation endpoint
\* can answer, and what the speech endpoint can answer.
RemoteTranscripts == {"What is the weather?", LONE_SURROGATE}
GeminiReplies == {"Sunny.", LONE_SURROGATE}
\* message.content of the chat completion, before .strip()
OpenAIReplies == {"Sunny.\n", LONE_SURROGATE}
RemoteAudio == {"ID3-sunny"}
\* Arguments of a direct call append_to_context(user_text, ai_reply).
AppendArgs == {"ping", "hello", LONE_SURROGATE} \X {"pong", LONE_SURROGATE}

Keys == {"", "sk-key"}

NoFile == "<no file>"
None == "<None>"

\* ----------------------------------------------------------------- state
VARIABLES
  cfg,        \* the module level Config
  store,      \* the content of chat_context.json
  audio,      \* the content of ai_reply.mp3
  clock,      \* datetime.utcnow()
  frame,      \* the locals of each caller
  nops,       \* calls started by each caller
  store0,     \* history: the store at start-up
  appended    \* history: the turns written by completed appends, in order

vars == <<cfg, store, audio, clock, frame, nops, store0, appended>>

\* -------------------------------------------------------- config.py
\* The defaults of OPENAI_MODEL and ELEVEN_VOICE_ID; the three keys are the
\* inputs.
DEFAULT_MODEL == "gpt-4o-mini"
DEFAULT_VOICE_ID == "21m00Tcm4TlvDq8ikWAM"

\* Variant: mock computed without the "not".
LoadFromEnv_NotDropped(o, g, e) ==
  [OPENAI_API_KEY |-> o, OPENAI_MODEL |-> DEFAULT_MODEL, GEMINI_API_KEY |-> g,
   ELEVEN_API_KEY |-> e, ELEVEN_VOICE_ID |-> DEFAULT_VOICE_ID,
   mock |-> (o # "" \/ g # "" \/ e # "")]

\* Config.load_from_env: mock = not (o or g or e)
LoadFromEnv(o, g, e) ==
  [OPENAI_API_KEY |-> o, OPENAI_MODEL |-> DEFAULT_MODEL, GEMINI_API_KEY |-> g,
   ELEVEN_API_KEY |-> e, ELEVEN_VOICE_ID |-> DEFAULT_VOICE_ID,
   mock |-> ~(o # "" \/ g # "" \/ e # "")]

\* ----------------------------------------------------- values and files
Turn(ts, human, ai) == [timestamp |-> ts, human |-> human, ai |-> ai]

\* A Python value json.load can return, and a file content: kind is
\*   "list"    a JSON array (turns holds its elements)
\*   "object", "string", "number"   another JSON value
\*   "absent"  (a file only) no file
\*   "invalid" (a file only) bytes that are no JSON document
Value(kind, turns) == [kind |-> kind, turns |-> turns]
EmptyList == Value("list", <<>>)
NonListKinds == {"object", "string", "number"}

HumanNames == <<"h1", "h2", "h3", "h4", "h5", "h6", "h7", "h8", "h9">>
AiNames == <<"a1", "a2", "a3", "a4", "a5", "a6", "a7", "a8", "a9">>
\* The k turns of an earlier session.
StoredHistory(k) == [i \in 1..k |-> Turn(i, HumanNames[i], AiNames[i])]

Encodable(text) == text # LONE_SURROGATE

\* load_context
LoadContext(file) ==
  IF file.kind = "absent" THEN [ok |-> TRUE, val |-> EmptyList, error |-> None]
  ELSE IF file.kind = "invalid"
       THEN [ok |-> FALSE, val |-> EmptyList, error |-> "JSONDecodeError"]
       ELSE [ok |-> TRUE, val |-> file, error |-> None]

\* Variant: context.insert(0, turn)
ListAppend_Prepend(turns, turn) == <<turn>> \o turns

\* context.append(turn)
ListAppend(turns, turn) == Append(turns, turn)

\* Variant: context[:5]
LastTurns_FirstFive(turns) ==
  SubSeq(turns, 1, IF Len(turns) < WINDOW THEN Len(turns) ELSE WINDOW)

\* context[-5:]
LastTurns(turns) ==
  SubSeq(turns, IF Len(turns) > WINDOW THEN Len(turns) - WINDOW + 1 ELSE 1,
         Len(turns))

\* The lines "Human: ..." and "AI: ..." of one turn.
Render(turn) == << <<"Human", turn.human>>, <<"AI", turn.ai>> >>

RECURSIVE RenderAll(_)
RenderAll(turns) ==
  IF turns = <<>> THEN <<>> ELSE Render(Head(turns)) \o RenderAll(Tail(turns))

\* The prompt of generate_response, line by line (a line is its label and
\* its text): the two fixed lines, the rendered window, an empty line, the
\* new utterance and the cue.
PromptHead ==
  << <<"", "The following is a conversation between a human and an AI assistant.">>,
     <<"", "Previous conversation:">> >>

Prompt(user_text, turns) ==
  PromptHead \o RenderAll(LastTurns(turns))
    \o << <<"", "">>, <<"Human", user_text>>, <<"AI", "">> >>

\* Variant: the OpenAI branch tested before the Gemini branch.
SelectBackend_OpenAIFirst(c) ==
  IF c.OPENAI_API_KEY # "" THEN "openai"
  ELSE IF c.GEMINI_API_KEY # "" THEN "gemini" ELSE "none"

\* The branch of generate_response outside mock mode.
SelectBackend(c) ==
  IF c.GEMINI_API_KEY # "" THEN "gemini"
  ELSE IF c.OPENAI_API_KEY # "" THEN "openai" ELSE "none"

\* ------------------------------------------------------------ the frame
Stages ==
  <<"transcribe", "load", "generate", "append", "synthesize", "write", "return">>

NoOutcome ==
  [status |-> "none", stage |-> None, error |-> None, text |-> None,
   audio_path |-> None, value |-> EmptyList]

Raised(stage, error) ==
  [NoOutcome EXCEPT !.status = "error", !.stage = stage, !.error = error]

Idle ==
  [pc |-> "idle", op |-> None, text_input |-> None, context |-> EmptyList,
   ai_reply |-> None, append_context |-> EmptyList, audio_bytes |-> None,
   audio_path |-> None, outcome |-> NoOutcome, trace |-> <<>>,
   calls |-> <<>>, prompt |-> <<>>, payload |-> <<>>,
   generate_context |-> EmptyList,
   pre_store |-> EmptyList, pre_audio |-> NoFile]

\* Variant: the synthesis called before append_to_context.
NextStage_SynthesizeFirst(stage) ==
  CASE stage = "transcribe" -> "load"
    [] stage = "load" -> "generate"
    [] stage = "generate" -> "synthesize"
    [] stage = "synthesize" -> "append"
    [] stage = "append" -> "write"
    [] stage = "write" -> "return"

\* The statement that follows a stage of process_voice_message.
NextStage(stage) ==
  CASE stage = "transcribe" -> "load"
    [] stage = "load" -> "generate"
    [] stage = "generate" -> "append"
    [] stage = "append" -> "synthesize"
    [] stage = "synthesize" -> "write"
    [] stage = "write" -> "return"

\* str.strip() of a completion.
Strip(text) == IF text = "Sunny.\n" THEN "Sunny." ELSE text

\* open(file_path, "rb") succeeds.
Readable(path) == path = "sample.wav"
AudioPaths == {"sample.wav", "missing.wav"}

AllEncodable(turns) ==
  \A i \in 1..Len(turns) : Encodable(turns[i].human) /\ Encodable(turns[i].ai)

Free(p) == frame[p].pc \in {"idle", "done"}

\* The stages entered so far, with stage entered (once).
Enter(trace, stage) ==
  IF trace # <<>> /\ trace[Len(trace)] = stage THEN trace
  ELSE Append(trace, stage)

\* An exception leaves the function; nothing catches it.
Raise(p, stage, error) ==
  frame' = [frame EXCEPT ![p].pc = "done", ![p].outcome = Raised(stage, error),
                         ![p].trace = Enter(@, stage)]

\* ------------------------------------------------ process_voice_message
StartProcess(p, limit) ==
  /\ Free(p) /\ nops[p] < limit
  /\ \E path \in AudioPaths :
       frame' = [frame EXCEPT ![p] =
                   [Idle EXCEPT !.pc = "transcribe", !.op = "process",
                                !.audio_path = path, !.pre_store = store,
                                !.pre_audio = audio]]
  /\ nops' = [nops EXCEPT ![p] = @ + 1]
  /\ UNCHANGED <<cfg, store, audio, clock, store0, appended>>

\* transcribe_audio
Transcribe(p) ==
  /\ frame[p].pc = "transcribe"
  /\ IF cfg.mock \/ cfg.OPENAI_API_KEY = ""
     THEN frame' = [frame EXCEPT ![p].text_input = MOCK_TRANSCRIPT,
                                 ![p].trace = Append(@, "transcribe"),
                                 ![p].pc = NextStage("transcribe")]
     ELSE IF ~Readable(frame[p].audio_path)
     THEN Raise(p, "transcribe", "FileNotFoundError")
     ELSE \/ \E t \in RemoteTranscripts :
               frame' = [frame EXCEPT ![p].text_input = t,
                                      ![p].trace = Append(@, "transcribe"),
                                      ![p].calls = Append(@, "whisper"),
                                      ![p].pc = NextStage("transcribe")]
          \/ Raise(p, "transcribe", "APIError")
  /\ UNCHANGED <<cfg, store, audio, clock, nops, store0, appended>>

\* context = load_context()
Load(p) ==
  /\ frame[p].pc = "load"
  /\ LET r == LoadContext(store) IN
       IF r.ok
       THEN frame' = [frame EXCEPT ![p].context = r.val,
                                   ![p].trace = Append(@, "load"),
                                   ![p].pc = NextStage("load")]
       ELSE Raise(p, "load", r.error)
  /\ UNCHANGED <<cfg, store, audio, clock, nops, store0, appended>>

\* generate_response(text_input, context)
Generate(p) ==
  /\ frame[p].pc = "generate"
  /\ LET f == frame[p]
         done(reply, called, built, sent) ==
           frame' = [frame EXCEPT ![p].ai_reply = reply,
                                  ![p].generate_context = f.context,
                                  ![p].calls = @ \o called,
                                  ![p].prompt = built,
                                  ![p].payload = sent,
                                  ![p].trace = Append(@, "generate"),
                                  ![p].pc = NextStage("generate")]
         failed(error, called, built, sent) ==
           frame' = [frame EXCEPT ![p].pc = "done",
                                  ![p].outcome = Raised("generate", error),
                                  ![p].generate_context = f.context,
                                  ![p].calls = @ \o called,
                                  ![p].prompt = built,
                                  ![p].payload = sent,
                                  ![p].trace = Append(@, "generate")]
     IN
       IF cfg.mock THEN done(MOCK_REPLY, <<>>, <<>>, <<>>)
       ELSE IF f.context.kind # "list"
       THEN \* context[-5:] and c['human'] on a dict, a str or a number
            failed("TypeError", <<>>, <<>>, <<>>)
       ELSE LET prompt == Prompt(f.text_input, f.context.turns) IN
         CASE SelectBackend(cfg) = "gemini" ->
                \/ \E r \in GeminiReplies :
                      done(r, <<"gemini">>, prompt, prompt)
                \/ failed("HTTPError", <<"gemini">>, prompt, prompt)
           [] SelectBackend(cfg) = "openai" ->
                \/ \E r \in OpenAIReplies :
                      done(Strip(r), <<"openai">>, prompt, prompt)
                \/ failed("APIError", <<"openai">>, prompt, prompt)
           [] OTHER -> done(NO_MODEL_REPLY, <<>>, prompt, <<>>)
  /\ UNCHANGED <<cfg, store, audio, clock, nops, store0, appended>>

\* ---------------------------------------------------- append_to_context
\* What follows the return of append_to_context.
AfterAppend(f) == IF f.op = "process" THEN NextStage("append") ELSE "done"

\* context = load_context(); context.append({...})
AppendLoad(p) ==
  /\ frame[p].pc = "append"
  /\ LET r == LoadContext(store)
         f == frame[p]
     IN
       IF ~r.ok THEN Raise(p, "append", r.error) /\ UNCHANGED clock
       ELSE IF r.val.kind # "list"
       THEN \* a dict, a str and a number have no append
            Raise(p, "append", "AttributeError") /\ UNCHANGED clock
       ELSE /\ frame' = [frame EXCEPT
                  ![p].append_context =
                     Value("list", ListAppend(r.val.turns,
                                     Turn(clock, f.text_input, f.ai_reply))),
                  ![p].trace = Enter(@, "append"),
                  ![p].pc = "save_open"]
            /\ clock' = clock + 1
  /\ UNCHANGED <<cfg, store, audio, nops, store0, appended>>

\* save_context: open(CONTEXT_FILE, "w") truncates the file
SaveOpen(p) ==
  /\ frame[p].pc = "save_open"
  /\ store' = Value("invalid", <<>>)
  /\ frame' = [frame EXCEPT ![p].pc = "save_dump"]
  /\ UNCHANGED <<cfg, audio, clock, nops, store0, appended>>

\* Variant: save_context(context[-1:])
SaveDump_OnlyNewTurn(p) ==
  /\ frame[p].pc = "save_dump"
  /\ LET f == frame[p] IN
       IF AllEncodable(f.append_context.turns)
       THEN /\ store' = Value("list", <<f.append_context.turns[Len(f.append_context.turns)]>>)
            /\ appended' = Append(appended, [human |-> f.text_input, ai |-> f.ai_reply])
            /\ frame' = [frame EXCEPT ![p].pc = AfterAppend(f),
                                      ![p].outcome =
                                         IF f.op = "process" THEN @
                                         ELSE [NoOutcome EXCEPT !.status = "ok"]]
       ELSE /\ store' = Value("invalid", <<>>)
            /\ Raise(p, "append", "UnicodeEncodeError")
            /\ UNCHANGED appended
  /\ UNCHANGED <<cfg, audio, clock, nops, store0>>

\* save_context: json.dump(context, f, ensure_ascii=False, indent=2) writes
\* the document chunk by chunk; a chunk the utf-8 codec cannot encode raises
\* and the with block closes the file on what was written before it.
SaveDump(p) ==
  /\ frame[p].pc = "save_dump"
  /\ LET f == frame[p] IN
       IF AllEncodable(f.append_context.turns)
       THEN /\ store' = f.append_context
            /\ appended' = Append(appended, [human |-> f.text_input, ai |-> f.ai_reply])
            /\ frame' = [frame EXCEPT ![p].pc = AfterAppend(f),
                                      ![p].outcome =
                                         IF f.op = "process" THEN @
                                         ELSE [NoOutcome EXCEPT !.status = "ok"]]
       ELSE /\ store' = Value("invalid", <<>>)
            /\ Raise(p, "append", "UnicodeEncodeError")
            /\ UNCHANGED appended
  /\ UNCHANGED <<cfg, audio, clock, nops, store0>>

\* ------------------------------------- process_voice_message, continued
\* Variant: a synthesis failure that undoes the append.
Synthesize_RollsBack(p) ==
  /\ frame[p].pc = "synthesize"
  /\ IF cfg.mock \/ cfg.ELEVEN_API_KEY = ""
     THEN /\ frame' = [frame EXCEPT ![p].audio_bytes = FAKEAUDIOBYTES,
                                    ![p].trace = Append(@, "synthesize"),
                                    ![p].pc = NextStage("synthesize")]
          /\ UNCHANGED store
     ELSE \/ /\ \E b \in RemoteAudio :
                  frame' = [frame EXCEPT ![p].audio_bytes = b,
                                         ![p].trace = Append(@, "synthesize"),
                                         ![p].calls = Append(@, "elevenlabs"),
                                         ![p].pc = NextStage("synthesize")]
             /\ UNCHANGED store
          \/ /\ Raise(p, "synthesize", "HTTPError")
             /\ store' = frame[p].pre_store
  /\ UNCHANGED <<cfg, audio, clock, nops, store0, appended>>

\* Variant: the output file opened before the synthesis is asked for.
Synthesize_OpensOutputFirst(p) ==
  /\ frame[p].pc = "synthesize"
  /\ IF cfg.mock \/ cfg.ELEVEN_API_KEY = ""
     THEN /\ frame' = [frame EXCEPT ![p].audio_bytes = FAKEAUDIOBYTES,
                                    ![p].trace = Append(@, "synthesize"),
                                    ![p].pc = NextStage("synthesize")]
          /\ UNCHANGED audio
     ELSE \/ /\ \E b \in RemoteAudio :
                  frame' = [frame EXCEPT ![p].audio_bytes = b,
                                         ![p].trace = Append(@, "synthesize"),
                                         ![p].calls = Append(@, "elevenlabs"),
                                         ![p].pc = NextStage("synthesize")]
             /\ UNCHANGED audio
          \/ /\ Raise(p, "synthesize", "HTTPError")
             /\ audio' = ""
  /\ UNCHANGED <<cfg, store, clock, nops, store0, appended>>

\* synthesize_speech(ai_reply)
Synthesize(p) ==
  /\ frame[p].pc = "synthesize"
  /\ IF cfg.mock \/ cfg.ELEVEN_API_KEY = ""
     THEN frame' = [frame EXCEPT ![p].audio_bytes = FAKEAUDIOBYTES,
                                 ![p].trace = Append(@, "synthesize"),
                                 ![p].pc = NextStage("synthesize")]
     ELSE \/ \E b \in RemoteAudio :
               frame' = [frame EXCEPT ![p].audio_bytes = b,
                                      ![p].trace = Append(@, "synthesize"),
                                      ![p].calls = Append(@, "elevenlabs"),
                                      ![p].pc = NextStage("synthesize")]
          \/ Raise(p, "synthesize", "HTTPError")
  /\ UNCHANGED <<cfg, store, audio, clock, nops, store0, appended>>

\* with open(output_path, "wb") as f: f.write(audio_bytes)
Write(p) ==
  /\ frame[p].pc = "write"
  /\ audio' = frame[p].audio_bytes
  /\ frame' = [frame EXCEPT ![p].trace = Append(@, "write"),
                            ![p].pc = NextStage("write")]
  /\ UNCHANGED <<cfg, store, clock, nops, store0, appended>>

\* return {"text": ai_reply, "audio_path": output_path}
Return(p) ==
  /\ frame[p].pc = "return"
  /\ frame' = [frame EXCEPT
        ![p].pc = "done",
        ![p].trace = Append(@, "return"),
        ![p].outcome = [NoOutcome EXCEPT !.status = "ok",
                                         !.text = frame[p].ai_reply,
                                         !.audio_path = OUTPUT_PATH]]
  /\ UNCHANGED <<cfg, store, audio, clock, nops, store0, appended>>

\* ------------------------------------------------------- direct calls
\* load_context()
CallLoad(p, limit) ==
  /\ Free(p) /\ nops[p] < limit
  /\ LET r == LoadContext(store) IN
       frame' = [frame EXCEPT ![p] =
          [Idle EXCEPT !.pc = "done", !.op = "load", !.trace = <<"load">>,
                       !.pre_store = store, !.pre_audio = audio,
                       !.outcome =
                          IF r.ok THEN [NoOutcome EXCEPT !.status = "ok",
                                                         !.value = r.val]
                          ELSE Raised("load", r.error)]]
  /\ nops' = [nops EXCEPT ![p] = @ + 1]
  /\ UNCHANGED <<cfg, store, audio, clock, store0, appended>>

\* append_to_context(user_text, ai_reply)
StartAppend(p, limit) ==
  /\ Free(p) /\ nops[p] < limit
  /\ \E args \in AppendArgs :
       frame' = [frame EXCEPT ![p] =
          [Idle EXCEPT !.pc = "append", !.op = "append",
                       !.text_input = args[1], !.ai_reply = args[2],
                       !.pre_store = store, !.pre_audio = audio]]
  /\ nops' = [nops EXCEPT ![p] = @ + 1]
  /\ UNCHANGED <<cfg, store, audio, clock, store0, appended>>

\* ------------------------------------------------------- specifications
StoredFiles ==
  {Value("absent", <<>>), Value("invalid", <<>>)}
    \cup {Value(k, <<>>) : k \in NonListKinds}
    \cup {Value("list", StoredHistory(k)) : k \in 0..MaxInit}

Init ==
  /\ cfg \in {LoadFromEnv(o, g, e) : o \in Keys, g \in Keys, e \in Keys}
  /\ store \in StoredFiles
  /\ store0 = store
  /\ audio \in {NoFile, "ID3-earlier"}
  /\ clock = MaxInit + 1
  /\ frame = [p \in Procs |-> Idle]
  /\ nops = [p \in Procs |-> 0]
  /\ appended = <<>>

Next ==
  \/ StartProcess(1, MaxOps)
  \/ Transcribe(1)
  \/ Load(1)
  \/ Generate(1)
  \/ AppendLoad(1)
  \/ SaveOpen(1)
  \/ SaveDump(1)
  \/ Synthesize(1)
  \/ Write(1)
  \/ Return(1)
  \/ CallLoad(1, MaxOps)
  \/ StartAppend(1, MaxOps)

\* One caller, one call at a time.
Spec == Init /\ [][Next]_vars

\* Two callers of the conversation store on the same file; cfg and the audio
\* file are not read by load_context and append_to_context.
InitConc == Init /\ cfg.mock /\ audio = NoFile

NextConc ==
  \E p \in Procs :
    \/ CallLoad(p, MaxConcOps)
    \/ StartAppend(p, MaxConcOps)
    \/ AppendLoad(p)
    \/ SaveOpen(p)
    \/ SaveDump(p)

SpecConc == InitConc /\ [][NextConc]_vars

\* ------------------------------------------------------------ properties
\* The caller of the sequential specification.
Caller == frame[1]

IsPrefix(s, t) == Len(s) <= Len(t) /\ \A i \in 1..Len(s) : s[i] = t[i]
Entered(f, stage) == \E i \in 1..Len(f.trace) : f.trace[i] = stage
Failed(f) == f.pc = "done" /\ f.outcome.status = "error"
Returned(f) == f.pc = "done" /\ f.outcome.status = "ok"
ValidFile(file) == file.kind \in {"absent", "list"}
\* The history a valid file holds.
HistoryOf(file) == IF file.kind = "list" THEN file.turns ELSE <<>>
\* turns is history followed by exactly one turn holding human and ai.
OneMore(turns, history, human, ai) ==
  /\ Len(turns) = Len(history) + 1
  /\ SubSeq(turns, 1, Len(history)) = history
  /\ turns[Len(turns)].human = human
  /\ turns[Len(turns)].ai = ai
\* append_to_context has returned in the current call.
AppendReturned(f) ==
  \/ f.op = "append" /\ Returned(f)
  \/ /\ f.op = "process" /\ Entered(f, "append")
     /\ f.pc \notin {"append", "save_open", "save_dump"}
     /\ ~(Failed(f) /\ f.outcome.stage = "append")

\* C1: an execution of process_voice_message enters its stages in the order
\* transcribe, load, generate, append, synthesize, write, return, each at
\* most once and each only after the one before it returned; the history
\* given to generate is the one loaded before the new turn is appended, and
\* the turn is on disk before the synthesis is entered.
C1_StageOrder ==
  LET f == Caller IN
    f.op = "process" =>
      /\ IsPrefix(f.trace, Stages)
      /\ \A i \in 1..Len(Stages) : f.pc = Stages[i] => Len(f.trace) = i - 1
      /\ f.pc \in {"save_open", "save_dump"} => f.trace = SubSeq(Stages, 1, 4)
      /\ Returned(f) => f.trace = Stages
      /\ Entered(f, "generate") =>
           /\ f.generate_context = LoadContext(f.pre_store).val
           /\ f.generate_context = f.context
      /\ Entered(f, "synthesize") =>
           /\ store.kind = "list"
           /\ OneMore(store.turns, HistoryOf(f.pre_store), f.text_input, f.ai_reply)

C1_Witness ==
  /\ Caller.op = "process" /\ Returned(Caller) /\ ~cfg.mock
  /\ Len(HistoryOf(Caller.pre_store)) >= 1
  /\ Caller.calls = <<"whisper", "gemini", "elevenlabs">>

C3_AbortLeavesFiles ==
  LET f == Caller IN
    f.op = "process" =>
      /\ Failed(f) =>
           /\ f.trace[Len(f.trace)] = f.outcome.stage
           /\ f.outcome.text = None /\ f.outcome.audio_path = None
           /\ f.outcome.stage \in {"transcribe", "load", "generate"} =>
                /\ store = f.pre_store
                /\ audio = f.pre_audio
                /\ ~Entered(f, "synthesize")
                /\ \A i \in 1..Len(f.calls) : f.calls[i] # "elevenlabs"
           /\ f.outcome.stage = "synthesize" => audio = f.pre_audio
      /\ ~Entered(f, "write") => audio = f.pre_audio
      /\ Entered(f, "write") =>
           /\ Entered(f, "synthesize") /\ f.audio_bytes # None
           /\ audio = f.audio_bytes

C3_Witness ==
  /\ Caller.op = "process" /\ Failed(Caller)
  /\ Caller.outcome.stage = "generate"
  /\ Caller.calls = <<"whisper", "gemini">>
  /\ Caller.pre_audio = "ID3-earlier" /\ audio = "ID3-earlier"
  /\ Len(HistoryOf(Caller.pre_store)) >= 1 /\ store = Caller.pre_store

\* C4: for every store that is absent or a list h and every pair of texts,
\* append_to_context(human, ai) followed by load_context yields h followed
\* by exactly one turn holding human and ai.
C4_AppendThenLoad ==
  LET f == Caller IN
    (f.op = "append" /\ f.pc = "done" /\ ValidFile(f.pre_store)) =>
      /\ Returned(f)
      /\ LoadContext(store).ok
      /\ LoadContext(store).val.kind = "list"
      /\ OneMore(LoadContext(store).val.turns, HistoryOf(f.pre_store),
                 f.text_input, f.ai_reply)

\* What holds of C4 on the code: the statement for the calls of
\* append_to_context that return (those whose texts the utf-8 codec encodes),
\* and a load_context after any number of them yields the history of the
\* start followed by the appended turns in the order of the calls.
C4_ReturnedAppendThenLoad ==
  LET f == Caller IN
    /\ (f.op = "append" /\ f.pc = "done" /\ ValidFile(f.pre_store)) =>
         Returned(f) = (Encodable(f.text_input) /\ Encodable(f.ai_reply))
    /\ (AppendReturned(f) /\ ValidFile(f.pre_store)) =>
         /\ LoadContext(store).ok
         /\ LoadContext(store).val.kind = "list"
         /\ OneMore(LoadContext(store).val.turns, HistoryOf(f.pre_store),
                    f.text_input, f.ai_reply)
    /\ (f.op = "load" /\ Returned(f) /\ ValidFile(store0)) =>
         LET got == f.outcome.value.turns
             k == Len(HistoryOf(store0))
         IN
           /\ f.outcome.value.kind = "list"
           /\ Len(got) = k + Len(appended)
           /\ SubSeq(got, 1, k) = HistoryOf(store0)
           /\ \A i \in 1..Len(appended) :
                /\ got[k + i].human = appended[i].human
                /\ got[k + i].ai = appended[i].ai

C4_Witness ==
  /\ Caller.op = "load" /\ Returned(Caller)
  /\ Len(HistoryOf(store0)) >= 2
  /\ Len(appended) = 2
  /\ appended[1] # appended[2]
  /\ Len(Caller.outcome.value.turns) = Len(HistoryOf(store0)) + 2

\* C5: two callers of append_to_context on the same file: the file, when it
\* holds a list, holds the start history, then between one and all of the
\* appended turns, the last of them the turn of the save that finished
\* last (the whole file is rewritten from what that caller had loaded); so
\* two appends that both return can leave one new turn instead of two
\* (C5_Witness).
C5_LastRewriteWins ==
  (ValidFile(store0) /\ store.kind = "list" /\ appended # <<>>) =>
    LET k == Len(HistoryOf(store0))
        t == store.turns
        last == appended[Len(appended)]
    IN
      /\ k + 1 <= Len(t) /\ Len(t) <= k + Len(appended)
      /\ SubSeq(t, 1, k) = HistoryOf(store0)
      /\ t[Len(t)].human = last.human /\ t[Len(t)].ai = last.ai
      /\ \A i \in (k + 1)..Len(t) :
           \E j \in 1..Len(appended) :
             t[i].human = appended[j].human /\ t[i].ai = appended[j].ai

C5_Witness ==
  /\ \A p \in Procs : frame[p].op = "append" /\ Returned(frame[p])
  /\ frame[1].text_input # frame[2].text_input
  /\ Len(appended) = 2
  /\ store.kind = "list" /\ store0.kind = "list" /\ Len(store0.turns) >= 1
  /\ Len(store.turns) = Len(store0.turns) + 1
  /\ store.turns[Len(store.turns)].human = appended[2].human
  /\ \A i \in 1..Len(store.turns) : store.turns[i].human # appended[1].human

\* C6: on a file holding a JSON value that is not a list, load_context
\* raises MalformedStoreError, and process_voice_message ends at its load
\* stage.
C6_NonListRejected ==
  LET f == Caller IN
    (f.pc = "done" /\ f.pre_store.kind \in NonListKinds) =>
      /\ f.op = "load" => Failed(f) /\ f.outcome.error = "MalformedStoreError"
      /\ f.op = "process" => Failed(f) /\ f.outcome.stage = "load"

\* C7: from a store that is absent or a list of turns, between the calls
\* the file, if there, is a JSON list of records with the keys timestamp,
\* human and ai, and every load_context returns such a list.
TurnRecords(turns) ==
  \A i \in 1..Len(turns) : DOMAIN turns[i] = {"timestamp", "human", "ai"}

C7_StoreAlwaysValid ==
  ValidFile(store0) =>
    /\ Free(1) => ValidFile(store) /\ TurnRecords(HistoryOf(store))
    /\ (Caller.op = "load" /\ Caller.pc = "done") =>
         /\ Returned(Caller)
         /\ Caller.outcome.value.kind = "list"
         /\ TurnRecords(Caller.outcome.value.turns)

\* C8: outside mock mode generate_response, given a list, calls at most one
\* generation provider: Gemini when its key is set (also when the OpenAI key
\* is set, and also when the call fails), OpenAI when only its key is set,
\* none when neither is set, and then the reply is the configuration error
\* text and nothing is raised.
GenerationCalls(f) ==
  SelectSeq(f.calls, LAMBDA c : c \in {"gemini", "openai"})

C8_BackendPriority ==
  LET f == Caller
      g == GenerationCalls(f)
  IN
    (f.op = "process" /\ ~cfg.mock) =>
      /\ ~Entered(f, "generate") => g = <<>>
      /\ (Entered(f, "generate") /\ f.generate_context.kind = "list") =>
           /\ Len(g) <= 1
           /\ cfg.GEMINI_API_KEY # "" => g = <<"gemini">>
           /\ (cfg.GEMINI_API_KEY = "" /\ cfg.OPENAI_API_KEY # "") =>
                g = <<"openai">>
           /\ (cfg.GEMINI_API_KEY = "" /\ cfg.OPENAI_API_KEY = "") =>
                /\ g = <<>>
                /\ f.ai_reply = NO_MODEL_REPLY
                /\ ~(Failed(f) /\ f.outcome.stage = "generate")

C8_Witness ==
  /\ Caller.op = "process" /\ Failed(Caller)
  /\ Caller.outcome.stage = "generate"
  /\ cfg.GEMINI_API_KEY # "" /\ cfg.OPENAI_API_KEY # ""
  /\ Caller.calls = <<"whisper", "gemini">>

\* C9: outside mock mode the prompt generate_response builds from a list of
\* n turns holds, after its two fixed lines, the last min(n, 5) turns, oldest
\* first, each as a Human line and an AI line, then the new utterance and
\* the cue; what is sent to the provider is that prompt, no line of it comes
\* from an older turn, and the file is not changed by generate_response.
C9_PromptWindow ==
  LET f == Caller
      h == f.generate_context.turns
      n == Len(h)
      m == IF n < 5 THEN n ELSE 5
      P == f.prompt
  IN
    (f.op = "process" /\ ~cfg.mock /\ Entered(f, "generate")
       /\ f.generate_context.kind = "list") =>
      /\ Len(P) = 2 * m + 5
      /\ SubSeq(P, 1, 2) = PromptHead
      /\ \A i \in 1..m :
           /\ P[2 * i + 1] = <<"Human", h[n - m + i].human>>
           /\ P[2 * i + 2] = <<"AI", h[n - m + i].ai>>
      /\ P[2 * m + 3] = <<"", "">>
      /\ P[2 * m + 4] = <<"Human", f.text_input>>
      /\ P[2 * m + 5] = <<"AI", "">>
      /\ GenerationCalls(f) # <<>> => f.payload = P
      /\ GenerationCalls(f) = <<>> => f.payload = <<>>
      /\ \A j \in 1..(n - m) : \A i \in 1..Len(f.payload) :
           \/ f.payload[i][2] \notin {h[j].human, h[j].ai}
           \/ \E w \in (n - m + 1)..n :
                f.payload[i][2] \in {h[w].human, h[w].ai}
      /\ ~Entered(f, "append") => store = f.pre_store

C9_Witness ==
  /\ Caller.op = "process" /\ ~cfg.mock
  /\ Caller.pc = "append"
  /\ Len(Caller.generate_context.turns) = 7
  /\ Len(Caller.payload) = 15
  /\ Caller.payload[3] = <<"Human", "h3">>
  /\ store = Caller.pre_store

\* C10: with every key empty process_voice_message, on a store that is
\* absent or a list of k turns and for any audio path, calls no provider,
\* returns the mock reply and the path ai_reply.mp3, leaves k + 1 turns of
\* which the last holds the mock transcript and the mock reply, and leaves
\* FAKEAUDIOBYTES in the output file; n such calls in a row from an empty
\* store leave exactly n such turns.
AllKeysEmpty ==
  cfg.OPENAI_API_KEY = "" /\ cfg.GEMINI_API_KEY = "" /\ cfg.ELEVEN_API_KEY = ""
MockTurn(turn) == turn.human = MOCK_TRANSCRIPT /\ turn.ai = MOCK_REPLY

C10_MockEndToEnd ==
  LET f == Caller IN
    (AllKeysEmpty /\ f.op = "process" /\ ValidFile(f.pre_store)) =>
      /\ cfg.mock
      /\ f.calls = <<>>
      /\ ~Failed(f)
      /\ f.pc = "done" =>
           /\ f.outcome.status = "ok"
           /\ f.outcome.text = MOCK_REPLY
           /\ f.outcome.audio_path = "ai_reply.mp3"
           /\ store.kind = "list"
           /\ OneMore(store.turns, HistoryOf(f.pre_store),
                      MOCK_TRANSCRIPT, MOCK_REPLY)
           /\ audio = FAKEAUDIOBYTES
           /\ (/\ HistoryOf(store0) = <<>>
               /\ Len(appended) = nops[1]
               /\ \A i \in 1..Len(appended) : MockTurn(appended[i])) =>
                /\ Len(store.turns) = nops[1]
                /\ \A i \in 1..Len(store.turns) : MockTurn(store.turns[i])

C10_Witness ==
  /\ AllKeysEmpty /\ Caller.op = "process" /\ Returned(Caller)
  /\ Caller.audio_path = "missing.wav"
  /\ store0.kind = "absent"
  /\ nops[1] = 2 /\ Len(appended) = 2
  /\ Len(store.turns) = 2
  /\ Caller.pre_audio = FAKEAUDIOBYTES

====
